---- MODULE Spec2Model ----
(***************************************************************************)
(* FrameSplitter (frame_splitter.py): the fingerprint ledger, the          *)
(* segmenter (split_video), the frame sampler                              *)
(* (extract_one_frame_per_second) and the batch driver (process_videos,    *)
(* main with its watch loop), as a state machine.                          *)
(*                                                                         *)
(* The decode / encode / image-write primitives (moviepy, cv2) are the     *)
(* environment: whether a source opens, whether a segment write raises,    *)
(* whether cv2 can open a written segment, and which frames are readable   *)
(* are chosen nondeterministically.  A KeyboardInterrupt may arrive at     *)
(* every position of the driver.                                           *)
(***************************************************************************)
EXTENDS Integers, Sequences, FiniteSets, TLC

\* ------------------------------------------------------------------ bounds
MaxDur == 6        \* whole-second durations of the source videos: 0..MaxDur
MaxRuns == 2       \* process_videos calls in one behaviour
MaxLedger == 3     \* ledger length up to which direct mark calls are made
EncodedFps == 1    \* frame rate of the segments the encoder writes
MaxSplitDur == 21  \* durations fed to the segmentation arithmetic alone
MaxFpsNum == 10    \* the sampler alone: fps = fpsNum / fpsDen
MaxFpsDen == 2
MaxFrames == 47    \* the sampler alone: frame counts 0..MaxFrames

\* ------------------------------------------------------- program constants
MinSegmentDuration == 5     \* argparse choices=range(5, 11)
MaxSegmentDuration == 10

Min(a, b) == IF a <= b THEN a ELSE b
Range(s) == {s[k] : k \in 1..Len(s)}
IsPrefix(s, t) == Len(s) <= Len(t) /\ \A k \in 1..Len(s) : s[k] = t[k]

\* ------------------------------------------------------------ the directory
VideoNames == {"a.mp4", "b.AVI"}

\* os.path.splitext(file)[1].lower()
splitext_lower(file) ==
    CASE file = "a.mp4" -> ".mp4"
      [] file = "b.AVI" -> ".avi"
      [] OTHER -> ".txt"

video_extensions == {".mp4", ".avi", ".mov", ".mkv", ".wmv", ".flv"}

\* os.stat(video_path).st_size: fixed per file, the directory is unchanged
st_size(file) == IF file = "a.mp4" THEN 1000 ELSE 2000

\* get_video_hash: md5 of "<base name>-<size>"; injective on (name, size)
\* up to md5 collisions, so the pair stands for the digest
get_video_hash(file) == <<file, st_size(file)>>

\* the orders os.listdir may return the video files in
Orderings(S) ==
    {s \in UNION {[1..n -> S] : n \in 0..Cardinality(S)} :
        \A j, k \in DOMAIN s : j # k => s[j] # s[k]}

RECURSIVE FilterVideos(_)
FilterVideos(files) ==
    IF files = <<>> THEN <<>>
    ELSE IF splitext_lower(Head(files)) \in video_extensions
         THEN <<Head(files)>> \o FilterVideos(Tail(files))
         ELSE FilterVideos(Tail(files))

\* ---------------------------------------------------------------- ledger
\* is_already_processed: False when the file does not exist, else membership
\* in f.read().splitlines()
is_already_processed_dropped(hash, exists, lines) == FALSE
is_already_processed(hash, exists, lines) ==
    IF ~exists THEN FALSE ELSE hash \in Range(lines)

\* mark_as_processed: open(..., 'a+') and write "<hash>\n": one more line
mark_as_processed_dedup(lines, hash) ==
    IF hash \in Range(lines) THEN lines ELSE Append(lines, hash)
mark_as_processed(lines, hash) == Append(lines, hash)

\* ------------------------------------------------------------- segmenter
\* segments = duration // segment_duration
segments(duration, sd) == duration \div sd
start_time(k, sd) == k * sd
end_time(k, sd, duration) == Min((k + 1) * sd, duration)
\* if end_time <= start_time: continue
SkipSegment_strict(start, end) == end < start
SkipSegment(start, end) == end <= start

\* the for loop of split_video with every write succeeding: the emitted
\* segments <<1-based index, start, end>>, in order
RECURSIVE SplitLoop(_, _, _, _)
SplitLoop(k, duration, sd, acc) ==
    IF k > segments(duration, sd) THEN acc
    ELSE IF SkipSegment(start_time(k, sd), end_time(k, sd, duration))
         THEN SplitLoop(k + 1, duration, sd, acc)
         ELSE SplitLoop(k + 1, duration, sd,
                        Append(acc, <<k + 1, start_time(k, sd),
                                      end_time(k, sd, duration)>>))
EmittedSegments(duration, sd) == SplitLoop(0, duration, sd, <<>>)

\* return True after the loop, whatever was written
split_video_result_nonempty(written) == written # {}
split_video_result(written) == TRUE

\* ---------------------------------------------------------- frame sampler
\* duration = frame_count / fps raises ZeroDivisionError when fps is 0, as it
\* is for a capture that cv2 could not open
SamplerRaises(fpsNum) == fpsNum = 0

\* while count <= duration, with duration = frame_count / (fpsNum / fpsDen)
LoopCond_strict(count, fpsNum, fpsDen, frame_count) ==
    count * fpsNum < frame_count * fpsDen
LoopCond(count, fpsNum, fpsDen, frame_count) ==
    count * fpsNum <= frame_count * fpsDen

\* frame_no = int(count * fps)
frame_no(count, fpsNum, fpsDen) == (count * fpsNum) \div fpsDen

\* the while loop: the second indices written, in order.  unreadable is the
\* set of frame numbers cap.read() fails on
RECURSIVE SampleLoop(_, _, _, _, _, _)
SampleLoop(count, fpsNum, fpsDen, frame_count, unreadable, acc) ==
    IF ~LoopCond(count, fpsNum, fpsDen, frame_count) THEN acc
    ELSE IF frame_no(count, fpsNum, fpsDen) \in unreadable THEN acc
    ELSE SampleLoop(count + 1, fpsNum, fpsDen, frame_count, unreadable,
                    Append(acc, count))
extract_one_frame_per_second(fpsNum, fpsDen, frame_count, unreadable) ==
    SampleLoop(0, fpsNum, fpsDen, frame_count, unreadable, <<>>)

\* a segment the encoder wrote and cv2 can open: EncodedFps frames a second,
\* reads fail from the end of the stream on
SegmentFrameCount(start, end) == (end - start) * EncodedFps
EndOfStream(frame_count) ==
    frame_count..(frame_count + (MaxSegmentDuration + 1) * EncodedFps)

\* ------------------------------------------------------------ the driver
\* if success: mark_as_processed(...)
ShouldMark_always(success) == TRUE
ShouldMark(success) == success

\* except Exception in split_video: the error is printed, False is returned,
\* and the for loop of process_videos goes on with the next video
OnSplitError_abort(k, n) == n + 1
OnSplitError(k, n) == k + 1

\* the except clause removes nothing that was written
FilesAfterError_rollback(files, v) == {f \in files : f[1] # v}
FilesAfterError(files, v) == files

\* extract_one_frame_per_second is called inside split_video's try and
\* catches nothing itself: an exception it raises ends the video
SamplerErrorAborts_logged == FALSE
SamplerErrorAborts == TRUE

\* KeyboardInterrupt is no Exception: split_video's except clause lets it
\* pass, whatever the position
InterruptCaughtBySplit_swallowed(at) == at \in {"segment", "sample"}
InterruptCaughtBySplit(at) == FALSE

VARIABLES
    listdir,            \* the input directory as os.listdir returns it
    clips,              \* per video: does VideoFileClip open it, int(duration)
    segment_duration,   \* args.duration
    watch,              \* args.watch (the same in every invocation)
    ledgerExists,       \* os.path.exists(".processed_videos")
    ledger,             \* its lines
    segFiles,           \* output_dir: <<video, index, start, end>>
    frameFiles,         \* frame_output_dir: <<video, index, second>>
    pc,                 \* position of main / process_videos / split_video
    idx,                \* position of the for loop over videos (0: no loop)
    i,                  \* split_video's loop variable (0 outside the loop)
    runs,               \* process_videos calls so far
    \* history
    lastOp,             \* the step taken last
    completed,          \* videos some split_video call returned True for
    doneNow,            \* this run: videos the for loop has gone past
    attemptedNow,       \* this run: videos split_video was called on
    writtenNow,         \* this run: <<video, index>> of segments written
    sampledNow,         \* this run: <<video, index>> of segments sampled
    writeFailedNow,     \* this run: <<video, index>> whose write raised
    samplerFailedNow,   \* this run: <<video, index>> whose sampling raised
    failedPrev,         \* <<video, index>> whose write raised in the run before
    prevNormal,         \* the run before returned normally
    ledgerAtStart,      \* the ledger when this run started
    fnIn, fnOut         \* input and result of a function applied on its own

envVars == <<listdir, clips, segment_duration>>
diskVars == <<ledgerExists, ledger, segFiles, frameFiles>>
histNow == <<doneNow, attemptedNow, writtenNow, sampledNow, writeFailedNow,
             samplerFailedNow>>
histRun == <<failedPrev, prevNormal, ledgerAtStart>>
fnVars == <<fnIn, fnOut>>
vars == <<listdir, clips, segment_duration, watch, ledgerExists, ledger,
          segFiles, frameFiles, pc, idx, i, runs, lastOp, completed, doneNow,
          attemptedNow, writtenNow, sampledNow, writeFailedNow,
          samplerFailedNow, failedPrev, prevNormal, ledgerAtStart, fnIn,
          fnOut>>

\* videos: the listing filtered by extension, in listing order
videos == FilterVideos(listdir)
cur == videos[idx]
curStart == start_time(i, segment_duration)
curEnd == end_time(i, segment_duration, clips[cur].duration)
Marked(v) == get_video_hash(v) \in Range(ledger)
MidVideo == {"segment", "sample", "mark"}

\* int(clip.duration) of the sources: 0, and from just under one segment of
\* the shortest configurable length up to MaxDur (the durations 1 .. 3 split
\* like 4 does: into the one segment [0, D))
Durations == {0} \cup ((MinSegmentDuration - 1)..MaxDur)

\* args.duration of the driver runs: the choices that differ on sources of
\* at most MaxDur seconds (any longer segment_duration gives one segment)
DriverSegmentDurations ==
    MinSegmentDuration..Min(MaxSegmentDuration, MaxDur)

ClipInfo ==
    {[openable |-> FALSE, duration |-> 0]}
    \cup {[openable |-> TRUE, duration |-> d] : d \in Durations}

DriverInit ==
    /\ listdir \in {<<"notes.txt">> \o s : s \in Orderings(VideoNames)}
    /\ clips \in [VideoNames -> ClipInfo]
    /\ \A v \in VideoNames \ Range(listdir) :
           clips[v] = [openable |-> FALSE, duration |-> 0]
    /\ segment_duration \in DriverSegmentDurations
    /\ watch \in BOOLEAN
    /\ ledgerExists = FALSE
    /\ ledger = <<>>
    /\ segFiles = {}
    /\ frameFiles = {}
    /\ pc = "idle"
    /\ idx = 0
    /\ i = 0
    /\ runs = 0
    /\ lastOp = "none"
    /\ completed = {}
    /\ doneNow = {}
    /\ attemptedNow = {}
    /\ writtenNow = {}
    /\ sampledNow = {}
    /\ writeFailedNow = {}
    /\ samplerFailedNow = {}
    /\ failedPrev = {}
    /\ prevNormal = FALSE
    /\ ledgerAtStart = <<>>

Init ==
    /\ DriverInit
    /\ fnIn = <<>>
    /\ fnOut = <<>>

\* process_videos returns to main: the watch loop sleeps, a single run exits
AfterRun == IF watch THEN "sleep" ELSE "idle"

\* process_videos is entered: the directory is listed and filtered; with no
\* video it reports and returns
EnterRun ==
    /\ runs' = runs + 1
    /\ failedPrev' = writeFailedNow
    /\ prevNormal' = (runs > 0 /\ lastOp # "interrupt")
    /\ ledgerAtStart' = ledger
    /\ doneNow' = {}
    /\ attemptedNow' = {}
    /\ writtenNow' = {}
    /\ sampledNow' = {}
    /\ writeFailedNow' = {}
    /\ samplerFailedNow' = {}
    /\ i' = 0
    /\ IF videos = <<>>
       THEN /\ pc' = AfterRun
            /\ idx' = 0
       ELSE /\ pc' = "loop"
            /\ idx' = 1
    /\ UNCHANGED <<envVars, watch, diskVars, completed, fnVars>>

\* main: a new invocation of the program
Main ==
    /\ pc = "idle"
    /\ runs < MaxRuns
    /\ lastOp' = "main"
    /\ EnterRun

\* the watch loop: time.sleep is over, process_videos is called again
NextCycle ==
    /\ pc = "sleep"
    /\ runs < MaxRuns
    /\ lastOp' = "cycle"
    /\ EnterRun

\* the for loop is exhausted: process_videos returns
EndRun ==
    /\ pc = "loop"
    /\ idx > Len(videos)
    /\ pc' = AfterRun
    /\ idx' = 0
    /\ lastOp' = "endrun"
    /\ UNCHANGED <<envVars, watch, diskVars, i, runs, completed, histNow,
                   histRun, fnVars>>

\* is_already_processed is true: continue
SkipProcessed ==
    /\ pc = "loop"
    /\ idx <= Len(videos)
    /\ is_already_processed(get_video_hash(cur), ledgerExists, ledger)
    /\ idx' = idx + 1
    /\ doneNow' = doneNow \cup {cur}
    /\ lastOp' = "skip"
    /\ UNCHANGED <<envVars, watch, diskVars, pc, i, runs, completed,
                   attemptedNow, writtenNow, sampledNow, writeFailedNow,
                   samplerFailedNow, histRun, fnVars>>

\* split_video returns False from its except clause; process_videos does
\* not mark and takes the next video
ReturnFalse ==
    /\ i' = 0
    /\ IF ShouldMark(FALSE)
       THEN /\ pc' = "mark"
            /\ UNCHANGED <<idx, doneNow>>
       ELSE /\ pc' = "loop"
            /\ idx' = OnSplitError(idx, Len(videos))
            /\ doneNow' = doneNow \cup {cur}

\* split_video is called and VideoFileClip raises
OpenFails ==
    /\ pc = "loop"
    /\ idx <= Len(videos)
    /\ ~is_already_processed(get_video_hash(cur), ledgerExists, ledger)
    /\ ~clips[cur].openable
    /\ attemptedNow' = attemptedNow \cup {cur}
    /\ ReturnFalse
    /\ lastOp' = "openfail"
    /\ UNCHANGED <<envVars, watch, diskVars, runs, completed, writtenNow,
                   sampledNow, writeFailedNow, samplerFailedNow, histRun,
                   fnVars>>

\* split_video is called and the clip opens: the loop starts at i = 0
OpenOk ==
    /\ pc = "loop"
    /\ idx <= Len(videos)
    /\ ~is_already_processed(get_video_hash(cur), ledgerExists, ledger)
    /\ clips[cur].openable
    /\ attemptedNow' = attemptedNow \cup {cur}
    /\ i' = 0
    /\ pc' = "segment"
    /\ lastOp' = "open"
    /\ UNCHANGED <<envVars, watch, diskVars, idx, runs, completed, doneNow,
                   writtenNow, sampledNow, writeFailedNow, samplerFailedNow,
                   histRun, fnVars>>

InLoop ==
    /\ pc = "segment"
    /\ i <= segments(clips[cur].duration, segment_duration)

\* end_time <= start_time: continue
SegmentSkip ==
    /\ InLoop
    /\ SkipSegment(curStart, curEnd)
    /\ i' = i + 1
    /\ lastOp' = "segskip"
    /\ UNCHANGED <<envVars, watch, diskVars, pc, idx, runs, completed,
                   histNow, histRun, fnVars>>

\* write_videofile succeeds: the file of that name is created or replaced
WriteOk ==
    /\ InLoop
    /\ ~SkipSegment(curStart, curEnd)
    /\ segFiles' = {f \in segFiles : ~(f[1] = cur /\ f[2] = i + 1)}
                   \cup {<<cur, i + 1, curStart, curEnd>>}
    /\ writtenNow' = writtenNow \cup {<<cur, i + 1>>}
    /\ pc' = "sample"
    /\ lastOp' = "write"
    /\ UNCHANGED <<envVars, watch, ledgerExists, ledger, frameFiles, idx, i,
                   runs, completed, doneNow, attemptedNow, sampledNow,
                   writeFailedNow, samplerFailedNow, histRun, fnVars>>

\* subclip / write_videofile raises: the except clause of split_video
WriteFails ==
    /\ InLoop
    /\ ~SkipSegment(curStart, curEnd)
    /\ writeFailedNow' = writeFailedNow \cup {<<cur, i + 1>>}
    /\ segFiles' = FilesAfterError(segFiles, cur)
    /\ frameFiles' = FilesAfterError(frameFiles, cur)
    /\ ReturnFalse
    /\ lastOp' = "writefail"
    /\ UNCHANGED <<envVars, watch, ledgerExists, ledger, runs, completed,
                   attemptedNow, writtenNow, sampledNow, samplerFailedNow,
                   histRun, fnVars>>

\* extract_one_frame_per_second on the segment just written, which cv2 opens
SampleOk ==
    /\ pc = "sample"
    /\ ~SamplerRaises(EncodedFps)
    /\ LET fc == SegmentFrameCount(curStart, curEnd)
           secs == extract_one_frame_per_second(EncodedFps, 1, fc,
                                                EndOfStream(fc))
       IN frameFiles' = frameFiles
                        \cup {<<cur, i + 1, secs[k]>> : k \in 1..Len(secs)}
    /\ sampledNow' = sampledNow \cup {<<cur, i + 1>>}
    /\ i' = i + 1
    /\ pc' = "segment"
    /\ lastOp' = "sample"
    /\ UNCHANGED <<envVars, watch, ledgerExists, ledger, segFiles, idx, runs,
                   completed, doneNow, attemptedNow, writtenNow,
                   writeFailedNow, samplerFailedNow, histRun, fnVars>>

\* extract_one_frame_per_second on a segment cv2 cannot open: fps is 0 and
\* the division raises; nothing catches it before split_video's except
SampleFails ==
    /\ pc = "sample"
    /\ SamplerRaises(0)
    /\ samplerFailedNow' = samplerFailedNow \cup {<<cur, i + 1>>}
    /\ IF SamplerErrorAborts
       THEN /\ ReturnFalse
            /\ segFiles' = FilesAfterError(segFiles, cur)
            /\ frameFiles' = FilesAfterError(frameFiles, cur)
       ELSE /\ pc' = "segment"
            /\ i' = i + 1
            /\ UNCHANGED <<idx, doneNow, segFiles, frameFiles>>
    /\ lastOp' = "samplefail"
    /\ UNCHANGED <<envVars, watch, ledgerExists, ledger, runs, completed,
                   attemptedNow, writtenNow, sampledNow, writeFailedNow,
                   histRun, fnVars>>

\* the loop is over: clip.close(), return True
SplitReturns ==
    /\ pc = "segment"
    /\ i > segments(clips[cur].duration, segment_duration)
    /\ i' = 0
    /\ LET success == split_video_result({f \in writtenNow : f[1] = cur})
       IN /\ completed' = IF success THEN completed \cup {cur} ELSE completed
          /\ IF ShouldMark(success)
             THEN /\ pc' = "mark"
                  /\ UNCHANGED <<idx, doneNow>>
             ELSE /\ pc' = "loop"
                  /\ idx' = idx + 1
                  /\ doneNow' = doneNow \cup {cur}
    /\ lastOp' = "return"
    /\ UNCHANGED <<envVars, watch, diskVars, runs, attemptedNow, writtenNow,
                   sampledNow, writeFailedNow, samplerFailedNow, histRun,
                   fnVars>>

\* mark_as_processed(video_path, processed_videos_file)
Mark ==
    /\ pc = "mark"
    /\ ledger' = mark_as_processed(ledger, get_video_hash(cur))
    /\ ledgerExists' = TRUE
    /\ idx' = idx + 1
    /\ doneNow' = doneNow \cup {cur}
    /\ pc' = "loop"
    /\ lastOp' = "mark"
    /\ UNCHANGED <<envVars, watch, segFiles, frameFiles, i, runs, completed,
                   attemptedNow, writtenNow, sampledNow, writeFailedNow,
                   samplerFailedNow, histRun, fnVars>>

\* KeyboardInterrupt in watch mode, at any position: it leaves
\* process_videos or time.sleep and is caught by main's except clause.
\* (Without --watch it ends the process at the same position, leaving the
\* same files: those runs are not told apart from the watch-mode ones.)
Interrupt ==
    /\ pc # "idle"
    /\ watch
    /\ lastOp' = "interrupt"
    /\ IF InterruptCaughtBySplit(pc)
       THEN ReturnFalse
       ELSE /\ pc' = "idle"
            /\ idx' = 0
            /\ i' = 0
            /\ UNCHANGED doneNow
    /\ UNCHANGED <<envVars, watch, diskVars, runs, completed, attemptedNow,
                   writtenNow, sampledNow, writeFailedNow, samplerFailedNow,
                   histRun, fnVars>>

Next ==
    \/ Main
    \/ NextCycle
    \/ EndRun
    \/ SkipProcessed
    \/ OpenFails
    \/ OpenOk
    \/ SegmentSkip
    \/ WriteOk
    \/ WriteFails
    \/ SampleOk
    \/ SampleFails
    \/ SplitReturns
    \/ Mark
    \/ Interrupt

Spec == Init /\ [][Next]_vars

\* ------------------------------------------- direct calls of the ledger API
\* The driver, and between its runs calls of is_already_processed and
\* mark_as_processed on any listed video.
ApiMark ==
    /\ pc = "idle"
    /\ Len(ledger) < MaxLedger
    /\ \E v \in Range(videos) :
        /\ ledger' = mark_as_processed(ledger, get_video_hash(v))
        /\ fnIn' = <<v>>
    /\ ledgerExists' = TRUE
    /\ fnOut' = <<>>
    /\ lastOp' = "api_mark"
    /\ UNCHANGED <<envVars, watch, segFiles, frameFiles, pc, idx, i, runs,
                   completed, histNow, histRun>>

ApiCheck ==
    /\ pc = "idle"
    /\ \E v \in Range(videos) :
        /\ fnIn' = <<v>>
        /\ fnOut' = <<is_already_processed(get_video_hash(v), ledgerExists,
                                           ledger)>>
    /\ lastOp' = "api_check"
    /\ UNCHANGED <<envVars, watch, diskVars, pc, idx, i, runs, completed,
                   histNow, histRun>>

\* single runs of the program (no --watch) with the default segment length,
\* on sources shorter than one segment
InitApi ==
    /\ Init
    /\ ~watch
    /\ segment_duration = MinSegmentDuration
    /\ \A v \in VideoNames : clips[v].duration < MinSegmentDuration

NextApi ==
    \/ Main
    \/ EndRun
    \/ SkipProcessed
    \/ OpenFails
    \/ OpenOk
    \/ SegmentSkip
    \/ WriteOk
    \/ WriteFails
    \/ SampleOk
    \/ SampleFails
    \/ SplitReturns
    \/ Mark
    \/ ApiMark
    \/ ApiCheck

SpecApi == InitApi /\ [][NextApi]_vars

\* --------------------------------------- the functions applied on their own
\* No driver runs: one function is applied to an input drawn in Init.
NoDriver ==
    /\ listdir = <<"notes.txt">>
    /\ clips = [v \in VideoNames |-> [openable |-> FALSE, duration |-> 0]]
    /\ segment_duration = MinSegmentDuration
    /\ watch = FALSE
    /\ ledgerExists = FALSE
    /\ ledger = <<>>
    /\ segFiles = {}
    /\ frameFiles = {}
    /\ pc = "fn"
    /\ idx = 0
    /\ i = 0
    /\ runs = 0
    /\ lastOp = "none"
    /\ completed = {}
    /\ doneNow = {}
    /\ attemptedNow = {}
    /\ writtenNow = {}
    /\ sampledNow = {}
    /\ writeFailedNow = {}
    /\ samplerFailedNow = {}
    /\ failedPrev = {}
    /\ prevNormal = FALSE
    /\ ledgerAtStart = <<>>

driverVars == <<envVars, watch, diskVars, pc, idx, i, runs, completed,
                histNow, histRun>>

\* split_video's loop on a source of fnIn.duration whole seconds
InitSegmenter ==
    /\ NoDriver
    /\ fnIn \in [duration : 0..MaxSplitDur,
                 sd : MinSegmentDuration..MaxSegmentDuration]
    /\ fnOut = <<>>

ApplySegmenter ==
    /\ lastOp = "none"
    /\ fnOut' = EmittedSegments(fnIn.duration, fnIn.sd)
    /\ lastOp' = "segmenter"
    /\ UNCHANGED <<driverVars, fnIn>>

SpecSegmenter == InitSegmenter /\ [][ApplySegmenter]_vars

\* the sets of frame numbers cap.read() fails on: none, one frame, or every
\* frame from some frame on (the end of the stream)
UnreadableSets ==
    {{}} \cup {{n} : n \in 0..MaxFrames}
         \cup {n..MaxFrames : n \in 0..MaxFrames}

\* extract_one_frame_per_second on a capture of fnIn.frame_count frames at
\* fnIn.fpsNum / fnIn.fpsDen frames a second
InitSampler ==
    /\ NoDriver
    /\ fnIn \in [fpsNum : 0..MaxFpsNum, fpsDen : 1..MaxFpsDen,
                 frame_count : 0..MaxFrames, unreadable : UnreadableSets]
    /\ fnOut = <<>>

ApplySampler ==
    /\ lastOp = "none"
    /\ ~SamplerRaises(fnIn.fpsNum)
    /\ fnOut' = extract_one_frame_per_second(fnIn.fpsNum, fnIn.fpsDen,
                                             fnIn.frame_count,
                                             fnIn.unreadable)
    /\ lastOp' = "sampler"
    /\ UNCHANGED <<driverVars, fnIn>>

ApplySamplerRaises ==
    /\ lastOp = "none"
    /\ SamplerRaises(fnIn.fpsNum)
    /\ lastOp' = "sampler_raised"
    /\ UNCHANGED <<driverVars, fnIn, fnOut>>

NextSampler ==
    \/ ApplySampler
    \/ ApplySamplerRaises

SpecSampler == InitSampler /\ [][NextSampler]_vars

\* ------------------------------------------------------------ properties
Hash(v) == get_video_hash(v)
DurationOf(v) == clips[v].duration
Emitted(v) == Range(EmittedSegments(DurationOf(v), segment_duration))
ErrorsNow == writeFailedNow \cup samplerFailedNow
\* the segment file and the frame files one successful pass over segment s
\* of video v leaves
SegmentOnDisk(v, s) ==
    /\ <<v, s[1], s[2], s[3]>> \in segFiles
    /\ \A c \in 0..(s[3] - s[2] - 1) : <<v, s[1], c>> \in frameFiles
FullyProcessed(v) == \A s \in Emitted(v) : SegmentOnDisk(v, s)

\* the two halves of C1: what a ledger line implies, and what a step does
\* when split_video returns success and when the driver stands before the mark
C1_MarkedOnlyCompleted == \A v \in VideoNames : Marked(v) => v \in completed
C1_MarkStep ==
    /\ completed' # completed =>
        /\ pc' = "mark"
        /\ completed' = completed \cup {cur}
        /\ \A f \in ErrorsNow : f[1] # cur
        /\ \A s \in Emitted(cur) :
               <<cur, s[1]>> \in writtenNow \cap sampledNow
    /\ pc = "mark" =>
        \/ lastOp' = "mark" /\ Hash(cur) \in Range(ledger')
        \/ lastOp' = "interrupt" /\ ledger' = ledger
\* C1 (as amended): the ledger holds a video's fingerprint only if some
\* finished split_video call on it returned success, and such a call returns
\* success only when every segment of the video was written and sampled
\* without error in that call; a video whose call returned success is marked
\* by the next step of process_videos unless a KeyboardInterrupt arrives
\* first, and then it stays unmarked.
C1_LedgerIffCompleted == []C1_MarkedOnlyCompleted /\ [][C1_MarkStep]_vars

C1_Witness ==
    /\ lastOp = "mark"
    /\ Marked("a.mp4")
    /\ DurationOf("a.mp4") > MinSegmentDuration
    /\ segment_duration = MinSegmentDuration

\* C1 (original): whenever no video is in progress, the ledger holds a
\* video's fingerprint if and only if a split_video call on it returned
\* success.
C1_Original ==
    pc \in {"idle", "sleep"} =>
        \A v \in VideoNames : Marked(v) <=> v \in completed

\* C2: the segments split_video emits are numbered 1, 2, ..., start at 0,
\* are contiguous, end at D, have a length in 1..segment_duration, all but
\* the last of exactly segment_duration; for D a multiple of
\* segment_duration there are D / segment_duration of them, and none for
\* D = 0.
C2_SegmentsPartition ==
    lastOp = "segmenter" =>
        LET D == fnIn.duration
            sd == fnIn.sd
            n == Len(fnOut)
        IN /\ (n = 0) <=> (D = 0)
           /\ \A k \in 1..n :
                /\ fnOut[k][1] = k
                /\ fnOut[k][3] - fnOut[k][2] > 0
                /\ fnOut[k][3] - fnOut[k][2] <= sd
                /\ k < n => fnOut[k][3] - fnOut[k][2] = sd
                /\ k < n => fnOut[k + 1][2] = fnOut[k][3]
           /\ n > 0 => fnOut[1][2] = 0 /\ fnOut[n][3] = D
           /\ D % sd = 0 => n = D \div sd

C2_Witness ==
    /\ lastOp = "segmenter"
    /\ fnIn = [duration |-> 10, sd |-> 5]
    /\ fnOut = <<<<1, 0, 5>>, <<2, 5, 10>>>>

MarkedAtStart(v) == Hash(v) \in Range(ledgerAtStart)
\* C3 (as amended): a run does nothing for a video the ledger held when the
\* run started: split_video is not called on it and none of its segments is
\* written or sampled; the ledger the run started with stays a prefix of the
\* ledger; and when every listed video was recorded at the start the run
\* writes nothing and leaves the ledger as it was.
C3_MarkedVideosSkipped ==
    /\ \A v \in VideoNames :
        MarkedAtStart(v) =>
            /\ v \notin attemptedNow
            /\ \A f \in writtenNow \cup sampledNow \cup ErrorsNow : f[1] # v
    /\ IsPrefix(ledgerAtStart, ledger)
    /\ (\A v \in Range(videos) : MarkedAtStart(v)) =>
            /\ ledger = ledgerAtStart
            /\ writtenNow = {}
            /\ sampledNow = {}

C3_Witness ==
    /\ runs = 2
    /\ lastOp = "endrun"
    /\ Len(ledgerAtStart) = 2
    /\ doneNow = VideoNames
    /\ \A v \in VideoNames : DurationOf(v) > 0

\* C3 (original): a run that follows a run that returned normally, on the
\* same directory and with the ledger that run left, segments and samples
\* nothing, writes no file and leaves the ledger unchanged.
C3_Original ==
    (runs >= 2 /\ prevNormal) =>
        /\ writtenNow = {}
        /\ sampledNow = {}
        /\ ledger = ledgerAtStart

\* C4: when a run of process_videos returns, every listed video has been
\* visited, no unopenable video is marked, and every openable video that met
\* no error in this run is marked with all its segments and frames on disk.
C4_FailureIsolated ==
    lastOp = "endrun" =>
        /\ doneNow = Range(videos)
        /\ \A v \in Range(videos) :
            /\ ~clips[v].openable => ~Marked(v)
            /\ (clips[v].openable /\ \A f \in ErrorsNow : f[1] # v) =>
                   Marked(v) /\ FullyProcessed(v)

C4_Witness ==
    /\ lastOp = "endrun"
    /\ runs = 1
    /\ videos = <<"a.mp4", "b.AVI">>
    /\ ~clips["a.mp4"].openable
    /\ DurationOf("b.AVI") > MinSegmentDuration
    /\ segment_duration = MinSegmentDuration
    /\ ledger = <<Hash("b.AVI")>>
    /\ FullyProcessed("b.AVI")

\* floor(frame_count / fps), and whether cap.read() fails at second s
FloorDuration == (fnIn.frame_count * fnIn.fpsDen) \div fnIn.fpsNum
OffsetUnreadable(s) ==
    frame_no(s, fnIn.fpsNum, fnIn.fpsDen) \in fnIn.unreadable
\* C5: the sampler writes the second indices 0, 1, 2, ... in order without
\* gaps, at most floor(D) + 1 of them for D = frame_count / fps; exactly
\* floor(D) + 1 when every offset is readable, and exactly 0 .. k-1 when
\* offset k is the first unreadable one.
C5_FramesPerSecond ==
    lastOp = "sampler" =>
        /\ \A k \in 1..Len(fnOut) : fnOut[k] = k - 1
        /\ Len(fnOut) <= FloorDuration + 1
        /\ (\A s \in 0..FloorDuration : ~OffsetUnreadable(s)) =>
               Len(fnOut) = FloorDuration + 1
        /\ \A k \in 0..FloorDuration :
               (OffsetUnreadable(k) /\ \A j \in 0..(k - 1) :
                                           ~OffsetUnreadable(j)) =>
                   Len(fnOut) = k

\* a segment of 4.7 s: 47 frames at 10 frames a second
C5_Witness ==
    /\ lastOp = "sampler"
    /\ fnIn = [fpsNum |-> 10, fpsDen |-> 1, frame_count |-> 47,
               unreadable |-> {}]
    /\ fnOut = <<0, 1, 2, 3, 4>>

\* what one step may do to the ledger
C6_Step ==
    /\ IsPrefix(ledger, ledger')
    /\ ledgerExists => ledgerExists'
    /\ lastOp' = "api_mark" =>
           ledger' = Append(ledger, Hash(fnIn'[1])) /\ ledgerExists'
    /\ lastOp' = "mark" => ledger' = Append(ledger, Hash(cur))
    /\ lastOp' \notin {"api_mark", "mark"} =>
           ledger' = ledger /\ ledgerExists' = ledgerExists
\* C6: every step leaves the ledger's lines in place; a call of
\* mark_as_processed appends exactly the line of its argument's fingerprint,
\* recorded already or not; is_already_processed changes nothing of the
\* ledger.
C6_AppendOnly == [][C6_Step]_vars

C6_Witness ==
    /\ lastOp = "api_mark"
    /\ Len(ledger) = 3
    /\ ledger[3] = ledger[1]
    /\ ledger[2] # ledger[1]

\* C7 (as amended): an error raised by frame sampling on a segment ends
\* split_video for that video: the video is not marked in this run, the
\* segment is not counted as sampled and no later segment of the video is
\* written; the for loop goes on, so that the run visits every listed video.
C7_SamplerErrorAbortsVideo ==
    /\ \A f \in samplerFailedNow :
        /\ ~Marked(f[1])
        /\ f \notin sampledNow
        /\ \A g \in writtenNow : g[1] = f[1] => g[2] <= f[2]
    /\ lastOp = "endrun" => doneNow = Range(videos)

C7_Witness ==
    /\ lastOp = "endrun"
    /\ videos = <<"a.mp4", "b.AVI">>
    /\ samplerFailedNow = {<<"a.mp4", 1>>}
    /\ DurationOf("a.mp4") > MinSegmentDuration
    /\ segment_duration = MinSegmentDuration
    /\ ledger = <<Hash("b.AVI")>>

\* C7 (original): when a run returns, a video whose sampling raised on some
\* segment and none of whose segment writes failed is marked.
C7_Original ==
    lastOp = "endrun" =>
        \A f \in samplerFailedNow :
            (\A g \in writeFailedNow : g[1] # f[1]) => Marked(f[1])

\* C8: after the write of segment k of a video failed, for the rest of the
\* run the video is unmarked, nothing of index >= k was written by the run,
\* and the segment and frame files of segments 1 .. k-1 are on disk as
\* written; in the next run, once the for loop is past that video,
\* split_video has been called on it and has started again at segment 1,
\* writing only names of the video's segments.
C8_WriteFailureNoRollback ==
    /\ \A f \in writeFailedNow :
        /\ ~Marked(f[1])
        /\ \A g \in writtenNow : g[1] = f[1] => g[2] < f[2]
        /\ \A s \in Emitted(f[1]) : s[1] < f[2] => SegmentOnDisk(f[1], s)
    /\ \A f \in failedPrev :
        f[1] \in doneNow =>
            /\ f[1] \in attemptedNow
            /\ <<f[1], 1>> \in writtenNow \cup writeFailedNow
            /\ \A g \in writtenNow :
                   g[1] = f[1] => \E s \in Emitted(f[1]) : s[1] = g[2]

C8_Witness ==
    /\ runs = 2
    /\ failedPrev = {<<"a.mp4", 2>>}
    /\ writeFailedNow = {<<"a.mp4", 2>>}
    /\ <<"a.mp4", 1>> \in writtenNow
    /\ SegmentOnDisk("a.mp4", <<1, 0, MinSegmentDuration>>)

\* what a step that honors a KeyboardInterrupt does
C9_Step ==
    lastOp' = "interrupt" =>
        /\ pc' = "idle"
        /\ ledger' = ledger
        /\ ledgerExists' = ledgerExists
        /\ segFiles' = segFiles
        /\ frameFiles' = frameFiles
        /\ pc \in MidVideo => Hash(cur) \notin Range(ledger')
\* C9 (as amended): a KeyboardInterrupt in watch mode stops the watch loop
\* at whatever position it arrives, also in the middle of a video; it
\* changes neither the ledger nor a written file, so the video in progress
\* is left unmarked with its files so far on disk.
C9_InterruptAnywhere == [][C9_Step]_vars

C9_Witness ==
    /\ lastOp = "interrupt"
    /\ pc = "idle"
    /\ attemptedNow = {"a.mp4"}
    /\ doneNow = {}
    /\ writtenNow = {<<"a.mp4", 1>>}
    /\ sampledNow = {}
    /\ ledger = <<>>

C9_OriginalStep == lastOp' = "interrupt" => pc \notin MidVideo
\* C9 (original): no KeyboardInterrupt is honored while a video is being
\* processed.
C9_Original == [][C9_OriginalStep]_vars

\* C10: an openable video of whole-second duration 0 never gets a segment
\* or frame file, yet once the for loop is past it it is marked, and a run
\* that starts with it marked does not call split_video on it.
C10_EmptyVideoMarked ==
    \A v \in VideoNames :
        (clips[v].openable /\ DurationOf(v) = 0) =>
            /\ \A f \in segFiles \cup frameFiles : f[1] # v
            /\ v \in doneNow => Marked(v)
            /\ (pc = "mark" /\ cur = v) => v \in completed
            /\ MarkedAtStart(v) => v \notin attemptedNow

C10_Witness ==
    /\ runs = 2
    /\ lastOp = "skip"
    /\ clips["a.mp4"].openable
    /\ DurationOf("a.mp4") = 0
    /\ "a.mp4" \in doneNow
    /\ segFiles = {}

====
